---- MODULE Spec2Model ----
(***************************************************************************)
(* Model of xblock_jupyter_viewer/jupyter_utils.py: the range filter        *)
(* (filter_start_end), the cell transform pipeline (preprocess with the     *)
(* RemoveCustomCSS and ImageReplacement processors) and the link            *)
(* post-processor (insert_target_blank).                                    *)
(*                                                                          *)
(* A Python string is a sequence of one-character strings. An optional      *)
(* argument is a sequence of length 0 (None) or 1 (the value), so that the  *)
(* empty string, which Python treats as false, is distinct from None.       *)
(***************************************************************************)
EXTENDS Integers, Sequences, FiniteSets, TLC

VARIABLES
    pc,              \* which operation has run
    nb,              \* the document: [cells |-> sequence of cell sources]
    cells0,          \* nb['cells'] when the operation was called
    start_tag,       \* filter_start_end's argument
    end_tag,         \* filter_start_end's argument
    start_cell_num,  \* filter_start_end's local, -1 while unassigned
    end_cell_num,    \* filter_start_end's local, -1 while unassigned
    ret,             \* the object filter_start_end returned
    log,             \* records emitted through log.warning / log.debug
    processors,      \* preprocess's processor list, each with its fields
    pos,             \* preprocess's position: [phase, i, t]
    calls,           \* the process_cell / finish calls made so far, in order
    cell,            \* ImageReplacement.process_cell's cell source
    images_url,      \* ImageReplacement.images_url
    cell_hist,       \* the cell source before each process_cell call
    raw_html,        \* insert_target_blank's argument
    html             \* insert_target_blank's result

filterVars == <<nb, cells0, start_tag, end_tag, start_cell_num, end_cell_num, ret, log>>
preVars == <<processors, pos, calls>>
imgVars == <<cell, images_url, cell_hist>>
linkVars == <<raw_html, html>>
vars == <<pc, filterVars, preVars, imgVars, linkVars>>

---------------------------------------------------------------------------
(* Python strings and optional arguments *)

None == <<>>

Some(v) == <<v>>

Val(opt) == opt[1]

\* Python truth value of an optional string: None and "" are false
Truthy(opt) == opt # None /\ Len(Val(opt)) > 0

\* sub in s
Contains(sub, s) ==
    \E i \in 0..(Len(s) - Len(sub)) : SubSeq(s, i + 1, i + Len(sub)) = sub

\* s[i:i+len(p)] == p, with i a 1-based position
MatchAt(p, s, i) ==
    /\ i >= 1
    /\ i + Len(p) - 1 <= Len(s)
    /\ SubSeq(s, i, i + Len(p) - 1) = p

\* the regular expression's "." : any character but a line break
IsDot(c) == c # "\n"

RECURSIVE Concat(_)
Concat(ss) == IF ss = <<>> THEN <<>> ELSE Head(ss) \o Concat(Tail(ss))

---------------------------------------------------------------------------
(* filter_start_end *)

\* line 121-122: the loop's update of start_cell_num at cell cell_num
StartUpdate(tag, source, cell_num, cur) ==
    IF Truthy(tag) /\ Contains(Val(tag), source) /\ cur = 0 THEN cell_num ELSE cur

\* mutant of EndUpdate: the "none recorded yet" test is missing, the last match wins
EndUpdate_LastMatch(tag, source, cell_num, cur, num_cells) ==
    IF Truthy(tag) /\ Contains(Val(tag), source) THEN cell_num ELSE cur

\* line 124-125: the loop's update of end_cell_num at cell cell_num
EndUpdate(tag, source, cell_num, cur, num_cells) ==
    IF Truthy(tag) /\ Contains(Val(tag), source) /\ cur = num_cells
    THEN cell_num ELSE cur

\* lines 119-125: the loop over enumerate(nb['cells']), from cell cell_num on
RECURSIVE FilterScan(_, _, _, _, _, _)
FilterScan(cells, st, et, cell_num, s, e) ==
    IF cell_num >= Len(cells) THEN [s |-> s, e |-> e]
    ELSE FilterScan(cells, st, et, cell_num + 1,
                    StartUpdate(st, cells[cell_num + 1], cell_num, s),
                    EndUpdate(et, cells[cell_num + 1], cell_num, e, Len(cells)))

Warning(tag) ==
    [level |-> "warning", text |-> "No cell with start content: {} found", arg |-> tag]

\* mutant of StartWarning: the test on start_cell_num is inverted
StartWarning_Inverted(tag, s) ==
    IF Truthy(tag) /\ s # 0 THEN <<Warning(Val(tag))>> ELSE <<>>

\* lines 127-128
StartWarning(tag, s) ==
    IF Truthy(tag) /\ s = 0 THEN <<Warning(Val(tag))>> ELSE <<>>

\* lines 129-130
EndWarning(tag, e, num_cells) ==
    IF Truthy(tag) /\ e = num_cells THEN <<Warning(Val(tag))>> ELSE <<>>

\* line 132: nb['cells'][start_cell_num:end_cell_num], both within 0..len
Slice(cells, s, e) == SubSeq(cells, s + 1, e)

\* mutant of EarlyReturn: a copy of the document is returned
EarlyReturn_Copy == "copy"

\* line 115: the object the early return hands back
EarlyReturn == "nb"

\* lines 110-134: the new cells, the locals, the log and the returned object
filter_start_end(cells, st, et) ==
    IF st = None /\ et = None
    THEN [cells |-> cells, s |-> -1, e |-> -1, log |-> <<>>, ret |-> EarlyReturn]
    ELSE LET r == FilterScan(cells, st, et, 0, 0, Len(cells))
         IN [cells |-> Slice(cells, r.s, r.e), s |-> r.s, e |-> r.e,
             log |-> StartWarning(st, r.s) \o EndWarning(et, r.e, Len(cells)),
             ret |-> "nb"]

---------------------------------------------------------------------------
(* The processors: RemoveCustomCSS and ImageReplacement *)

\* line 36
search_text ==
    <<"f", "r", "o", "m", " ", "I", "P", "y", "t", "h", "o", "n", ".", "c", "o", "r",
      "e", ".", "d", "i", "s", "p", "l", "a", "y", " ", "i", "m", "p", "o", "r", "t",
      " ", "H", "T", "M", "L">>

\* lines 34-38: a processor is a record of its class and fields; a field its
\* class does not have keeps its initial value
RemoveCustomCSS ==
    [kind |-> "RemoveCustomCSS", found |-> FALSE, cell_num |-> 0, images_url |-> <<>>]

\* lines 58-60
ImageReplacement(url) ==
    [kind |-> "ImageReplacement", found |-> FALSE, cell_num |-> 0, images_url |-> url]

Debug(text, arg) == [level |-> "debug", text |-> text, arg |-> arg]

\* mutant of RemoveCustomCSS_process_cell: the counter also advances on the match
RemoveCustomCSS_process_cell_CountsMatch(self, source) ==
    IF ~self.found
    THEN IF Contains(search_text, source)
         THEN [self |-> [self EXCEPT !.found = TRUE, !.cell_num = self.cell_num + 1],
               log |-> <<Debug("Found Custom CSS Cell @ cells[{}]", self.cell_num)>>]
         ELSE [self |-> [self EXCEPT !.cell_num = self.cell_num + 1], log |-> <<>>]
    ELSE [self |-> self, log |-> <<>>]

\* lines 40-46: the processor after the call, and what it logged
RemoveCustomCSS_process_cell(self, source) ==
    IF ~self.found
    THEN IF Contains(search_text, source)
         THEN [self |-> [self EXCEPT !.found = TRUE],
               log |-> <<Debug("Found Custom CSS Cell @ cells[{}]", self.cell_num)>>]
         ELSE [self |-> [self EXCEPT !.cell_num = self.cell_num + 1], log |-> <<>>]
    ELSE [self |-> self, log |-> <<>>]

\* line 51: del cells[k], k a 0-based index
DelAt(cells, k) == SubSeq(cells, 1, k) \o SubSeq(cells, k + 2, Len(cells))

\* lines 48-52: the document's cells after the call, and what it logged
RemoveCustomCSS_finish(self, cells) ==
    IF self.found
    THEN [cells |-> DelAt(cells, self.cell_num),
          log |-> <<Debug("Removed cell #: {} [custom css]", self.cell_num)>>]
    ELSE [cells |-> cells, log |-> <<>>]

IMG_OPEN == <<"<", "i", "m", "g">>

SRC_EQ == <<"s", "r", "c", "=", "\"">>

SetMax(S) == CHOOSE x \in S : \A y \in S : y <= x

SetMin(S) == CHOOSE x \in S : \A y \in S : x <= y

\* line 63, the tail (.+?)\" of the pattern after src=\" at position j: the
\* positions of a closing quote after one or more characters of one line
CloseQuotes(s, j) ==
    {q \in (j + 6)..Len(s) :
        s[q] = "\"" /\ \A x \in (j + 5)..(q - 1) : IsDot(s[x])}

\* line 63, the part .+src=\" of the pattern after <img at position i: the
\* positions of a src=\" that one or more characters of one line lead to and
\* that the rest of the pattern matches from
SrcStarts(s, i) ==
    {j \in (i + 5)..Len(s) :
        /\ MatchAt(SRC_EQ, s, j)
        /\ \A x \in (i + 4)..(j - 1) : IsDot(s[x])
        /\ CloseQuotes(s, j) # {}}

\* line 63: the pattern matches at position i
ImgMatchAt(s, i) == MatchAt(IMG_OPEN, s, i) /\ SrcStarts(s, i) # {}

\* line 63: the greedy .+ takes the last src=\" it can
GreedySrc(s, i) == SetMax(SrcStarts(s, i))

\* line 63: re.findall from position from on: the leftmost match, its captured
\* group (the lazy .+? stops at the first closing quote), then the matches
\* after its end
RECURSIVE FindAllImg(_, _)
FindAllImg(s, from) ==
    LET starts == {i \in from..Len(s) : ImgMatchAt(s, i)}
    IN IF starts = {} THEN <<>>
       ELSE LET i == SetMin(starts)
                j == GreedySrc(s, i)
                q == SetMin(CloseQuotes(s, j))
            IN <<SubSeq(s, j + 5, q - 1)>> \o FindAllImg(s, q + 1)

\* line 65: m.split('/')[-1]
SplitTail(m) ==
    LET slashes == {k \in 1..Len(m) : m[k] = "/"}
    IN IF slashes = {} THEN m ELSE SubSeq(m, SetMax(slashes) + 1, Len(m))

\* line 66: s.replace(old, new), old not empty
RECURSIVE Replace(_, _, _)
Replace(s, old, new) ==
    IF Len(s) < Len(old) THEN s
    ELSE IF MatchAt(old, s, 1)
         THEN new \o Replace(SubSeq(s, Len(old) + 1, Len(s)), old, new)
         ELSE <<Head(s)>> \o Replace(Tail(s), old, new)

\* lines 64-66: the loop over the matches
RECURSIVE ReplaceEach(_, _, _)
ReplaceEach(source, matches, url) ==
    IF matches = <<>> THEN source
    ELSE ReplaceEach(Replace(source, Head(matches), url \o SplitTail(Head(matches))),
                     Tail(matches), url)

\* lines 62-66: the cell's source after the call
ImageReplacement_process_cell(self, source) ==
    ReplaceEach(source, FindAllImg(source, 1), self.images_url)

\* lines 23-24, 40, 62: t.process_cell(cell) by the processor's class
process_cell(self, source) ==
    IF self.kind = "RemoveCustomCSS"
    THEN LET r == RemoveCustomCSS_process_cell(self, source)
         IN [self |-> r.self, source |-> source, log |-> r.log]
    ELSE [self |-> self, source |-> ImageReplacement_process_cell(self, source),
          log |-> <<>>]

\* lines 26-28, 48: t.finish() by the processor's class
finish(self, cells) ==
    IF self.kind = "RemoveCustomCSS"
    THEN RemoveCustomCSS_finish(self, cells)
    ELSE [cells |-> cells, log |-> <<>>]

---------------------------------------------------------------------------
(* preprocess *)

\* lines 139-144: where the nested loops stand before any call, with ncells
\* cells and nprocs processors
FirstPos(ncells, nprocs) ==
    IF ncells > 0 /\ nprocs > 0 THEN [phase |-> "cells", i |-> 0, t |-> 1]
    ELSE IF nprocs > 0 THEN [phase |-> "finish", i |-> ncells, t |-> 1]
    ELSE [phase |-> "done", i |-> ncells, t |-> 1]

\* mutant of AfterCell: the loops are nested the other way round, each
\* processor runs over all cells before the next processor starts
AfterCell_ProcessorMajor(i, t, ncells, nprocs) ==
    IF i + 1 < ncells THEN [phase |-> "cells", i |-> i + 1, t |-> t]
    ELSE IF t < nprocs THEN [phase |-> "cells", i |-> 0, t |-> t + 1]
    ELSE [phase |-> "finish", i |-> ncells, t |-> 1]

\* lines 142-144: where the loops stand after t.process_cell(cell) for cell i
\* and processor t: the inner loop over the processors, then the next cell
AfterCell(i, t, ncells, nprocs) ==
    IF t < nprocs THEN [phase |-> "cells", i |-> i, t |-> t + 1]
    ELSE IF i + 1 < ncells THEN [phase |-> "cells", i |-> i + 1, t |-> 1]
    ELSE [phase |-> "finish", i |-> ncells, t |-> 1]

\* lines 147-148: where the loop stands after t.finish() for processor t
AfterFinish(i, t, nprocs) ==
    IF t < nprocs THEN [phase |-> "finish", i |-> i, t |-> t + 1]
    ELSE [phase |-> "done", i |-> i, t |-> t]

---------------------------------------------------------------------------
(* insert_target_blank *)

\* line 79: raw_html.encode('utf-8'), character by character: an ASCII
\* character is one byte, itself; U+00E9 is the two bytes C3 A9
encode_utf8_char(c) == IF c = "U+00E9" THEN <<"0xC3", "0xA9">> ELSE <<c>>

RECURSIVE encode_utf8(_)
encode_utf8(s) ==
    IF s = <<>> THEN <<>> ELSE encode_utf8_char(Head(s)) \o encode_utf8(Tail(s))

A_OPEN == <<"<", "a", " ">>

\* line 85: the text put between s[:2] and s[3:]
TARGET_BLANK ==
    <<" ", "t", "a", "r", "g", "e", "t", "=", "\"", "_", "b", "l", "a", "n", "k", "\"", " ">>

\* lines 82-85: s[:2] + ' target="_blank" ' + s[3:]
match_fn(s) == SubSeq(s, 1, 2) \o TARGET_BLANK \o SubSeq(s, 4, Len(s))

\* line 79, the part .+?> of the pattern after "<a " at position i: the
\* positions of a > after one or more characters of one line
LinkEnds(s, i) ==
    {g \in (i + 4)..Len(s) :
        s[g] = ">" /\ \A x \in (i + 3)..(g - 1) : IsDot(s[x])}

\* line 79: the pattern matches at position i
LinkMatchAt(s, i) == MatchAt(A_OPEN, s, i) /\ LinkEnds(s, i) # {}

\* line 79: the matches re.sub finds from position from on, left to right,
\* none overlapping another, the lazy .+? ending each at its first >
RECURSIVE LinkMatches(_, _)
LinkMatches(s, from) ==
    LET starts == {i \in from..Len(s) : LinkMatchAt(s, i)}
    IN IF starts = {} THEN <<>>
       ELSE LET i == SetMin(starts)
                g == SetMin(LinkEnds(s, i))
            IN <<[first |-> i, last |-> g]>> \o LinkMatches(s, g + 1)

\* line 79: re.sub: the text between the matches kept, each match replaced
RECURSIVE SubMatches(_, _, _)
SubMatches(s, from, matches) ==
    IF matches = <<>> THEN SubSeq(s, from, Len(s))
    ELSE SubSeq(s, from, Head(matches).first - 1)
         \o match_fn(SubSeq(s, Head(matches).first, Head(matches).last))
         \o SubMatches(s, Head(matches).last + 1, Tail(matches))

\* lines 77-79
insert_target_blank(raw) ==
    LET bytes == encode_utf8(raw)
    IN SubMatches(bytes, 1, LinkMatches(bytes, 1))

---------------------------------------------------------------------------
(* Bounds and input pools *)

MaxFilterCells == 4

SeqsUpTo(S, n) == UNION {[1..k -> S] : k \in 0..n}

\* cell sources the range filter is run on
FilterSources == {<<>>, <<"a">>, <<"b">>, <<"a", "b">>}

\* start_tag / end_tag values: None, "", "a", "b", "ab", "c"
FilterTags ==
    {None, Some(<<>>), Some(<<"a">>), Some(<<"b">>), Some(<<"a", "b">>), Some(<<"c">>)}

---------------------------------------------------------------------------
(* Values of the variables an operation does not use *)

FilterIdle ==
    /\ nb = [cells |-> <<>>]
    /\ cells0 = <<>>
    /\ start_tag = None
    /\ end_tag = None
    /\ start_cell_num = -1
    /\ end_cell_num = -1
    /\ ret = "unset"
    /\ log = <<>>

PreIdle ==
    /\ processors = <<>>
    /\ pos = [phase |-> "idle", i |-> 0, t |-> 0]
    /\ calls = <<>>

ImgIdle ==
    /\ cell = <<>>
    /\ images_url = <<>>
    /\ cell_hist = <<>>

LinkIdle ==
    /\ raw_html = <<>>
    /\ html = <<>>

---------------------------------------------------------------------------
(* Specification of one filter_start_end call *)

InitFilter ==
    /\ pc = "filter_ready"
    /\ nb \in {[cells |-> c] : c \in SeqsUpTo(FilterSources, MaxFilterCells)}
    /\ cells0 = nb.cells
    /\ start_tag = None
    /\ end_tag = None
    /\ start_cell_num = -1
    /\ end_cell_num = -1
    /\ ret = "unset"
    /\ log = <<>>
    /\ PreIdle /\ ImgIdle /\ LinkIdle

FilterStartEnd ==
    /\ pc = "filter_ready"
    /\ \E st \in FilterTags, et \in FilterTags :
         LET r == filter_start_end(nb.cells, st, et)
         IN /\ nb' = [nb EXCEPT !.cells = r.cells]
            /\ start_tag' = st
            /\ end_tag' = et
            /\ start_cell_num' = r.s
            /\ end_cell_num' = r.e
            /\ log' = log \o r.log
            /\ ret' = r.ret
    /\ pc' = "filter_done"
    /\ UNCHANGED <<cells0, preVars, imgVars, linkVars>>

NextFilter == FilterStartEnd

SpecFilter == InitFilter /\ [][NextFilter]_vars

---------------------------------------------------------------------------
(* Claims about filter_start_end *)

HasMatch(tag, cells) == \E i \in 1..Len(cells) : Contains(tag, cells[i])

\* 0-based index of the first cell whose source contains tag
FirstMatch(tag, cells) ==
    CHOOSE i \in 0..(Len(cells) - 1) :
        /\ Contains(tag, cells[i + 1])
        /\ \A j \in 0..(i - 1) : ~Contains(tag, cells[j + 1])

WarnedFor(tag) ==
    \E k \in 1..Len(log) : log[k].level = "warning" /\ log[k].arg = tag

\* C1: for every non-null start_tag that some cell contains, the result begins
\* at the first (lowest-index) cell whose source contains start_tag, whatever
\* later cells match, also when cell 0 matches.
C1_StartsAtFirstMatch ==
    (pc = "filter_done" /\ start_tag # None /\ HasMatch(Val(start_tag), cells0))
        => /\ start_cell_num = FirstMatch(Val(start_tag), cells0)
           /\ nb.cells = Slice(cells0, FirstMatch(Val(start_tag), cells0), end_cell_num)

\* C2 as stated: for every non-null end_tag the result ends just before the
\* first cell whose source contains end_tag, and at the cell count when no
\* cell matches.
C2_EndsAtFirstMatch_NonNull ==
    (pc = "filter_done" /\ end_tag # None)
        => /\ end_cell_num = IF HasMatch(Val(end_tag), cells0)
                             THEN FirstMatch(Val(end_tag), cells0)
                             ELSE Len(cells0)
           /\ nb.cells = Slice(cells0, start_cell_num, end_cell_num)

\* C2 amended: for every non-null, non-empty end_tag the result ends just
\* before the first cell whose source contains end_tag (half-open slice, later
\* matching cells never change the end index), and at the cell count when no
\* cell matches.
C2_EndsAtFirstMatch ==
    (pc = "filter_done" /\ Truthy(end_tag))
        => /\ end_cell_num = IF HasMatch(Val(end_tag), cells0)
                             THEN FirstMatch(Val(end_tag), cells0)
                             ELSE Len(cells0)
           /\ nb.cells = Slice(cells0, start_cell_num, end_cell_num)
           /\ \A k \in 1..Len(nb.cells) : nb.cells[k] = cells0[start_cell_num + k]
           /\ Len(nb.cells) = IF end_cell_num > start_cell_num
                              THEN end_cell_num - start_cell_num ELSE 0

\* C2 witness: the end tag is in two cells, the first of them not cell 0, and
\* the result is the non-empty run of cells before that first one
C2_Witness ==
    /\ pc = "filter_done"
    /\ Truthy(end_tag)
    /\ Cardinality({i \in 1..Len(cells0) : Contains(Val(end_tag), cells0[i])}) >= 2
    /\ end_cell_num >= 1
    /\ start_cell_num < end_cell_num
    /\ nb.cells # <<>>
    /\ Len(nb.cells) < Len(cells0)

\* the C3 statement for tags satisfying Given
C3_Body(GivenStart, GivenEnd) ==
    pc = "filter_done" =>
        /\ (GivenStart /\ ~HasMatch(Val(start_tag), cells0))
              => WarnedFor(Val(start_tag)) /\ start_cell_num = 0 /\ ret = "nb"
        /\ (GivenEnd /\ ~HasMatch(Val(end_tag), cells0))
              => WarnedFor(Val(end_tag)) /\ end_cell_num = Len(cells0) /\ ret = "nb"
        /\ (GivenStart /\ end_tag = None /\ ~HasMatch(Val(start_tag), cells0))
              => nb.cells = cells0 /\ Len(log) = 1

\* C3 as stated: a non-null tag that no cell's source contains gets a warning,
\* the call returns, and the tag's boundary is the default (start 0, end = cell
\* count); with only an unmatched start tag all cells stay and one warning is
\* emitted.
C3_UnmatchedTagWarns_NonNull == C3_Body(start_tag # None, end_tag # None)

\* C3 amended: the same for a non-null, non-empty tag.
C3_UnmatchedTagWarns == C3_Body(Truthy(start_tag), Truthy(end_tag))

\* C3 witness: only a start tag, in no cell of a non-empty document
C3_Witness ==
    /\ pc = "filter_done"
    /\ Truthy(start_tag)
    /\ end_tag = None
    /\ ~HasMatch(Val(start_tag), cells0)
    /\ Len(cells0) >= 2
    /\ Len(log) = 1

\* C8: with both tags None the same document object comes back, its cell
\* sequence unchanged, and nothing is logged.
C8_NoTagsUnchanged ==
    (pc = "filter_done" /\ start_tag = None /\ end_tag = None)
        => ret = "nb" /\ nb.cells = cells0 /\ log = <<>>

\* C8 witness: the call without tags on a document of several cells
C8_Witness ==
    /\ pc = "filter_done"
    /\ start_tag = None
    /\ end_tag = None
    /\ Len(cells0) >= 2
    /\ ret = "nb"

\* C10: a warning is logged for a tag only when the tag was supplied and no
\* cell's source contains it.
C10_WarningOnlyWhenUnmatched ==
    pc = "filter_done" =>
        \A k \in 1..Len(log) :
            \E tag \in {start_tag, end_tag} :
                /\ tag # None
                /\ Val(tag) = log[k].arg
                /\ ~HasMatch(Val(tag), cells0)

---------------------------------------------------------------------------
(* Specification of one preprocess call, a process_cell or finish call a step *)

MaxCells == 3

IMG_P_A == <<"<", "i", "m", "g", " ", "s", "r", "c", "=", "\"", "p", "/", "a", "\"", ">">>

\* cell sources preprocess is run on: plain text, the css loader alone and
\* after other text, an image
PreSources == {<<"x">>, search_text, <<"#", "\n">> \o search_text, IMG_P_A}

BASE_Y == <<"y", "/">>

\* lines 167-169: the processor lists process_nb builds
ProcessorLists == {<<RemoveCustomCSS>>, <<RemoveCustomCSS, ImageReplacement(BASE_Y)>>}

InitPre ==
    /\ pc = "preprocess"
    /\ nb \in {[cells |-> c] : c \in SeqsUpTo(PreSources, MaxCells)}
    /\ cells0 = nb.cells
    /\ processors \in ProcessorLists
    /\ pos = FirstPos(Len(nb.cells), Len(processors))
    /\ calls = <<>>
    /\ log = <<>>
    /\ start_tag = None
    /\ end_tag = None
    /\ start_cell_num = -1
    /\ end_cell_num = -1
    /\ ret = "unset"
    /\ ImgIdle /\ LinkIdle

\* line 144: t.process_cell(cell)
ProcessCellStep ==
    /\ pc = "preprocess"
    /\ pos.phase = "cells"
    /\ LET r == process_cell(processors[pos.t], nb.cells[pos.i + 1])
       IN /\ processors' = [processors EXCEPT ![pos.t] = r.self]
          /\ nb' = [nb EXCEPT !.cells[pos.i + 1] = r.source]
          /\ log' = log \o r.log
    /\ calls' = Append(calls, [op |-> "process_cell", cell |-> pos.i, t |-> pos.t])
    /\ pos' = AfterCell(pos.i, pos.t, Len(nb.cells), Len(processors))
    /\ UNCHANGED <<pc, cells0, start_tag, end_tag, start_cell_num, end_cell_num, ret,
                   imgVars, linkVars>>

\* line 148: t.finish()
FinishStep ==
    /\ pc = "preprocess"
    /\ pos.phase = "finish"
    /\ LET r == finish(processors[pos.t], nb.cells)
       IN /\ nb' = [nb EXCEPT !.cells = r.cells]
          /\ log' = log \o r.log
    /\ calls' = Append(calls, [op |-> "finish", cell |-> -1, t |-> pos.t])
    /\ pos' = AfterFinish(pos.i, pos.t, Len(processors))
    /\ UNCHANGED <<pc, cells0, start_tag, end_tag, start_cell_num, end_cell_num, ret,
                   processors, imgVars, linkVars>>

NextPre == ProcessCellStep \/ FinishStep

SpecPre == InitPre /\ [][NextPre]_vars

---------------------------------------------------------------------------
(* Specification of ImageReplacement.process_cell applied to one cell, up to
   MaxPasses times *)

MaxPasses == 2

MaxImgFrags == 4

IMG_A == <<"<", "i", "m", "g", " ", "s", "r", "c", "=", "\"", "a", "\"", ">">>

IMG_X_A ==
    <<"<", "i", "m", "g", " ", "s", "r", "c", "=", "\"", "x", "/", "a", "\"", ">">>

\* the pieces a cell source is put together from: images, a line break, text
ImgFrags == {IMG_A, IMG_X_A, IMG_P_A, <<"\n">>, <<"a">>}

\* y/z
BASE_Y_Z == <<"y", "/", "z">>

\* base URLs, with and without the closing slash
ImgBases == {BASE_Y, BASE_Y_Z}

InitImg ==
    /\ pc = "image"
    /\ images_url \in ImgBases
    /\ cell \in {Concat(fs) : fs \in SeqsUpTo(ImgFrags, MaxImgFrags)}
    /\ cell_hist = <<>>
    /\ FilterIdle /\ PreIdle /\ LinkIdle

ImageProcessCell ==
    /\ pc = "image"
    /\ Len(cell_hist) < MaxPasses
    /\ cell' = ImageReplacement_process_cell(ImageReplacement(images_url), cell)
    /\ cell_hist' = Append(cell_hist, cell)
    /\ UNCHANGED <<pc, images_url, filterVars, preVars, linkVars>>

NextImg == ImageProcessCell

SpecImg == InitImg /\ [][NextImg]_vars

---------------------------------------------------------------------------
(* Claims about preprocess and the processors *)

\* the cell sequence cells without its cell at 0-based index k
WithoutCell(cells, k) ==
    [n \in 1..(Len(cells) - 1) |-> IF n <= k THEN cells[n] ELSE cells[n + 1]]

\* C4: after preprocess with a single RemoveCustomCSS, the cells are the
\* original ones without the first cell whose source contains the marker (one
\* cell fewer, the others in their order, later marker cells kept), or all the
\* original ones when no cell contains it; the index the processor recorded is
\* the number of cells before the first match.
C4_FirstCssCellRemoved ==
    (pc = "preprocess" /\ Len(processors) = 1)
        => /\ processors[1].found
                => processors[1].cell_num = FirstMatch(search_text, cells0)
           /\ pos.phase = "done"
                => /\ processors[1].found = HasMatch(search_text, cells0)
                   /\ nb.cells = IF HasMatch(search_text, cells0)
                                 THEN WithoutCell(cells0, FirstMatch(search_text, cells0))
                                 ELSE cells0

\* C4 witness: two cells contain the marker, the first of them is not cell 0,
\* and the run has ended with one cell fewer and the later marker cell kept
C4_Witness ==
    /\ pc = "preprocess"
    /\ Len(processors) = 1
    /\ pos.phase = "done"
    /\ Cardinality({i \in 1..Len(cells0) : Contains(search_text, cells0[i])}) = 2
    /\ ~Contains(search_text, cells0[1])
    /\ Len(nb.cells) = Len(cells0) - 1
    /\ HasMatch(search_text, nb.cells)
    /\ processors[1].cell_num = 1

\* the calls preprocess is to make for ncells cells and nprocs processors, in
\* order: cell by cell every processor's process_cell, then every finish
ExpectedCalls(ncells, nprocs) ==
    [k \in 1..(ncells * nprocs + nprocs) |->
        IF k <= ncells * nprocs
        THEN [op |-> "process_cell", cell |-> (k - 1) \div nprocs,
              t |-> ((k - 1) % nprocs) + 1]
        ELSE [op |-> "finish", cell |-> -1, t |-> k - ncells * nprocs]]

\* C5: every processor's process_cell runs on cell i, in list order, before
\* any runs on cell i+1; each (cell, processor) pair is visited once; the
\* finish calls come after all of them, once per processor, in list order.
C5_CallOrder ==
    pc = "preprocess" =>
        LET want == ExpectedCalls(Len(cells0), Len(processors))
        IN /\ Len(calls) <= Len(want)
           /\ calls = SubSeq(want, 1, Len(calls))
           /\ pos.phase = "done" => calls = want
           /\ pos.phase = "cells" => Len(calls) < Len(cells0) * Len(processors)

\* C5 witness: a finished run over three cells with two processors
C5_Witness ==
    /\ pc = "preprocess"
    /\ pos.phase = "done"
    /\ Len(processors) = 2
    /\ Len(cells0) = 3
    /\ Len(calls) = 8
    /\ calls[2] = [op |-> "process_cell", cell |-> 0, t |-> 2]
    /\ calls[8] = [op |-> "finish", cell |-> -1, t |-> 2]

\* the src values of the img tags of s from position from on, in order: an
\* img tag runs from <img to the next >, its src value from src=" to the next "
RECURSIVE ImgTagSrcs(_, _)
ImgTagSrcs(s, from) ==
    LET tags == {i \in from..Len(s) :
                    MatchAt(IMG_OPEN, s, i) /\ \E g \in i..Len(s) : s[g] = ">"}
    IN IF tags = {} THEN <<>>
       ELSE LET i == SetMin(tags)
                g == SetMin({x \in i..Len(s) : s[x] = ">"})
                srcs == {j \in (i + 4)..g :
                            MatchAt(SRC_EQ, s, j)
                            /\ \E q \in (j + 5)..g : s[q] = "\""}
            IN IF srcs = {} THEN ImgTagSrcs(s, g + 1)
               ELSE LET j == SetMin(srcs)
                        q == SetMin({x \in (j + 5)..g : s[x] = "\""})
                    IN <<SubSeq(s, j + 5, q - 1)>> \o ImgTagSrcs(s, g + 1)

\* C7: a second process_cell with the same base URL changes nothing.
C7_SecondPassNoOp ==
    (pc = "image" /\ Len(cell_hist) = 2) => cell = cell_hist[2]

\* C9: after process_cell with base URL B every img tag's src value v of the
\* source has become B + (the part of v after its last /), whether the cell has
\* several img tags (also on one line), several values, or a value that is part
\* of another.
C9_EverySrcRewritten ==
    (pc = "image" /\ Len(cell_hist) = 1)
        => LET before == ImgTagSrcs(cell_hist[1], 1)
           IN ImgTagSrcs(cell, 1) =
                  [k \in 1..Len(before) |-> images_url \o SplitTail(before[k])]

---------------------------------------------------------------------------
(* Specification of one insert_target_blank call *)

MaxLinkFrags == 5

\* <a href="x">hi</a>
LINK_EXAMPLE ==
    <<"<", "a", " ", "h", "r", "e", "f", "=", "\"", "x", "\"", ">", "h", "i", "<", "/",
      "a", ">">>

\* the pieces the rendered HTML is put together from
LinkFrags ==
    {<<"<", "a">>, <<" ">>, <<">">>, <<"x">>, <<"\n">>, <<"U+00E9">>, LINK_EXAMPLE}

InitLink ==
    /\ pc = "link"
    /\ raw_html \in {Concat(fs) : fs \in SeqsUpTo(LinkFrags, MaxLinkFrags)}
    /\ html = <<>>
    /\ FilterIdle /\ PreIdle /\ ImgIdle

InsertTargetBlank ==
    /\ pc = "link"
    /\ html' = insert_target_blank(raw_html)
    /\ pc' = "link_done"
    /\ UNCHANGED <<raw_html, filterVars, preVars, imgVars>>

NextLink == InsertTargetBlank

SpecLink == InitLink /\ [][NextLink]_vars

---------------------------------------------------------------------------
(* Claims about insert_target_blank *)

\* a tag starts at position i: a < before a tag name or a /, closed by a later >
TagStartAt(s, i) ==
    /\ s[i] = "<"
    /\ i < Len(s)
    /\ s[i + 1] \notin {" ", "<", ">", "\n"}
    /\ \E g \in (i + 1)..Len(s) : s[g] = ">"

\* the tag starting at position i is an anchor open tag: its name is a
IsAnchorOpen(s, i) == s[i + 1] = "a" /\ s[i + 2] \in {" ", ">", "\n"}

\* the attribute as the claim places it: <a target="_blank" href="x">
ATTRIBUTE == SubSeq(TARGET_BLANK, 1, Len(TARGET_BLANK) - 1)

\* s from position from on with the attribute placed right after the <a of
\* every anchor open tag, a tag running to its first >
RECURSIVE WithTargets(_, _)
WithTargets(s, from) ==
    LET tags == {i \in from..Len(s) : TagStartAt(s, i)}
    IN IF tags = {} THEN SubSeq(s, from, Len(s))
       ELSE LET i == SetMin(tags)
                g == SetMin({x \in (i + 1)..Len(s) : s[x] = ">"})
            IN IF IsAnchorOpen(s, i)
               THEN SubSeq(s, from, i + 1) \o ATTRIBUTE \o SubSeq(s, i + 2, g)
                    \o WithTargets(s, g + 1)
               ELSE SubSeq(s, from, g) \o WithTargets(s, g + 1)

\* <a target="_blank" href="x">hi</a>
LINK_EXAMPLE_OUT ==
    SubSeq(LINK_EXAMPLE, 1, 2) \o ATTRIBUTE \o SubSeq(LINK_EXAMPLE, 3, Len(LINK_EXAMPLE))

\* C6: every anchor open tag of the input, also one without attributes, gets
\* target="_blank" right after its <a, the rest of the tag and the text outside
\* the tags stay as they are, <a href="x">hi</a> becomes
\* <a target="_blank" href="x">hi</a>, and no match spans more than one tag.
C6_EveryAnchorRewritten ==
    pc = "link_done" =>
        LET bytes == encode_utf8(raw_html)
            matches == LinkMatches(bytes, 1)
        IN /\ html = WithTargets(bytes, 1)
           /\ raw_html = LINK_EXAMPLE => html = LINK_EXAMPLE_OUT
           /\ \A k \in 1..Len(matches) :
                 Cardinality({x \in (matches[k].first)..(matches[k].last) :
                                 bytes[x] = ">"}) = 1

====
